---- MODULE Spec2Model ----
\* A model of TaleCast (src/podcast.rs, src/tags.rs, src/utils.rs):
\*   SpecSync  - Podcasts::sync, the per-podcast tasks, Podcast::sync and
\*               Podcast::download_episode, step by step;
\*   SpecFeed  - Podcast::new (episode construction, sort, index assignment)
\*               followed by Podcast::pending_episodes;
\*   SpecTags  - tags::set_mp3_tags run (repeatedly) on one destination file;
\*   SpecXml   - xml_to_value on one feed document, then the parse check of
\*               Podcast::new;
\*   SpecNs    - utils::remove_xml_namespaces, event by event.
\* The specifications share the variables below; each keeps the variables of
\* the others at their idle values.
EXTENDS Integers, Sequences, FiniteSets, TLC

VARIABLES
    \* ---- SpecSync: Podcasts::sync and its tasks
    syncPc,      \* position of Podcasts::sync: "start", "joining", "returned"
    configured,  \* self.podcasts: the set of configured podcast names
    order,       \* iteration order of the HashMap self.podcasts
    pc,          \* position of each podcast's task
    feedRes,     \* outcome of Podcast::new per podcast
    pendingLen,  \* episodes.len() in Podcast::sync (the ordered eligible sequence)
    pos,         \* number of items the for loop of Podcast::sync has taken
    epState,     \* per podcast, per loop position: where that episode's pipeline is
    handle,      \* per podcast, per loop position: the background handle
    marked,      \* per podcast: positions whose downloaded marker was written
    downloaded,  \* the local vector `downloaded` of Podcast::sync
    awaitPos,    \* number of entries of `downloaded` already awaited
    paths,       \* the local vector `paths` of Podcast::sync
    ret,         \* the value the task returned (a sequence of paths)
    ui,          \* per podcast: the calls made on its DownloadBar, in order
    result,      \* the value Podcasts::sync returned
    panicCause,  \* per podcast: what made its task panic ("none" if nothing)
    \* ---- SpecFeed: Podcast::new and Podcast::pending_episodes
    feedPc,      \* position in Podcast::new / pending_episodes
    rawEpisodes, \* raw_episodes, as xml_to_value returned them (feed order)
    rawPos,      \* number of raw episodes the loop of Podcast::new has taken
    episodes,    \* the local `episodes`, then podcast.episodes
    mode,        \* podcast.mode
    isDownloaded,\* the persisted downloaded markers, by episode id (guid)
    pendingSeq,  \* the value pending_episodes returned
    \* ---- SpecTags: tags::set_mp3_tags on one destination file
    tagPc,       \* "idle", "ready" (no run in progress), "panicked"
    fileTags,    \* the tags stored in the destination file
    attrs,       \* the attributes of the podcast and the episode
    customTags,  \* the custom_tags argument
    overflowChecks, \* whether the build checks integer overflow
    tagsBefore,  \* fileTags before the latest run that returned
    tagsAfterFirst, \* fileTags right after the first run that returned
    fetches,     \* the artwork fetch outcome seen by each run that returned
    runs,        \* number of runs that returned
    lastPanic,   \* what made the latest run panic ("none" if it returned)
    \* ---- SpecXml: xml_to_value and the parse check of Podcast::new
    xmlPc,       \* "idle", "ready", "decoded", "panicked", "done"
    xmlDoc,      \* the downloaded feed document
    xmlOut,      \* what xml_to_value returned
    newRes,      \* what Podcast::new made of it
    \* ---- SpecNs: utils::remove_xml_namespaces
    nsPc,        \* "idle", "reading", "done", "panicked"
    nsRepl,      \* the `replacement` argument
    nsIn,        \* the pieces of the document, in order: tags and texts
    nsPos,       \* number of events read
    nsOut        \* the events written so far

varsSync == <<syncPc, configured, order, pc, feedRes, pendingLen, pos, epState,
              handle, marked, downloaded, awaitPos, paths, ret, ui, result,
              panicCause>>

varsFeed == <<feedPc, rawEpisodes, rawPos, episodes, mode, isDownloaded, pendingSeq>>

varsTags == <<tagPc, fileTags, attrs, customTags, overflowChecks, tagsBefore,
              tagsAfterFirst, fetches, runs, lastPanic>>

varsXml == <<xmlPc, xmlDoc, xmlOut, newRes>>

varsNs == <<nsPc, nsRepl, nsIn, nsPos, nsOut>>

vars == <<varsSync, varsFeed, varsTags, varsXml, varsNs>>

\* ------------------------------------------------------------------ bounds
MaxPending == 2
MaxItems == 3
MaxTime == 3
MaxVariations == 2
MaxRuns == 2
MaxChannelKids == 2
MaxXmlItems == 2
MaxPieces == 2

\* The configured podcasts (names are unique per run).
PodNames == {"a", "b"}
Positions == 1..MaxPending

\* ----------------------------------------------------------------- helpers
Path(p, k) == <<p, k>>

RECURSIVE Perms(_)
Perms(S) ==
    IF S = {} THEN {<<>>}
    ELSE UNION {{<<x>> \o t : t \in Perms(S \ {x})} : x \in S}

\* The synchronous stages of download_episode.
SyncStages == {"download", "tags", "process", "finish"}

InPipeline(p) == {k \in Positions : epState[p][k] \in SyncStages}

\* ------------------------------------------------- idle values of the variables
\* Podcasts::sync not called.
SyncIdle ==
    /\ syncPc = "idle"
    /\ configured = {}
    /\ order = <<>>
    /\ pc = [p \in PodNames |-> "none"]
    /\ feedRes = [p \in PodNames |-> "none"]
    /\ pendingLen = [p \in PodNames |-> 0]
    /\ pos = [p \in PodNames |-> 0]
    /\ epState = [p \in PodNames |-> [k \in Positions |-> "pending"]]
    /\ handle = [p \in PodNames |-> [k \in Positions |-> "unset"]]
    /\ marked = [p \in PodNames |-> {}]
    /\ downloaded = [p \in PodNames |-> <<>>]
    /\ awaitPos = [p \in PodNames |-> 0]
    /\ paths = [p \in PodNames |-> <<>>]
    /\ ret = [p \in PodNames |-> <<>>]
    /\ ui = [p \in PodNames |-> <<>>]
    /\ result = <<>>
    /\ panicCause = [p \in PodNames |-> "none"]

\* No podcast constructed.
FeedIdle ==
    /\ feedPc = "idle"
    /\ rawEpisodes = <<>>
    /\ rawPos = 0
    /\ episodes = <<>>
    /\ mode = [kind |-> "standard", limit |-> 0, cutoff |-> 0]
    /\ isDownloaded = {}
    /\ pendingSeq = <<>>

\* xml_to_value not called.
NoDoc == [wellFormed |-> FALSE, root |-> [name |-> <<>>, text |-> <<>>, kids |-> <<>>]]

NoOut == [kind |-> "unset", podcast |-> <<>>, episodes |-> <<>>]

XmlIdle ==
    /\ xmlPc = "idle"
    /\ xmlDoc = NoDoc
    /\ xmlOut = NoOut
    /\ newRes = "none"

\* remove_xml_namespaces not called.
NsIdle ==
    /\ nsPc = "idle"
    /\ nsRepl = ""
    /\ nsIn = <<>>
    /\ nsPos = 0
    /\ nsOut = <<>>

\* ------------------------------------------------------------------- SpecTags
\* Frame identifiers: the ones set_mp3_tags derives, and one it never derives.
TitleId == "TIT2"
ArtistId == "TPE1"
AlbumId == "TALB"
GenreId == "TCON"
TrackId == "TRCK"
YearId == "TYER"
CopyrightId == "TCOP"
DescriptionId == "TDES"
PictureId == "APIC"
CategoryId == "TCAT"
ReleasedId == "TDRL"
LanguageId == "TLAN"
DurationId == "TLEN"
PublisherId == "TPUB"
PodcastIdId == "TGID"
ComposerId == "TCOM"

DerivedFrames ==
    {TitleId, ArtistId, AlbumId, GenreId, TrackId, YearId, CopyrightId,
     DescriptionId, PictureId, CategoryId, ReleasedId, LanguageId, DurationId,
     PublisherId, PodcastIdId}

AllFrames == DerivedFrames \cup {ComposerId}

\* Identifiers a custom tag mapping may name here.
CustomIds == {TitleId, DurationId, ComposerId}

\* An absent value (Option::None, or no frame of that identifier).
None == "<none>"

NoTags == [f \in AllFrames |-> None]

\* The attributes of the podcast and the episode that set_mp3_tags reads. Each
\* has a usual value and the other values it can take.
AttrValues ==
    [ep_author       |-> {"ep author", None},
     pod_title       |-> {"pod title", None},
     itunes_episode  |-> {"7", None, "seven"},
     copyright       |-> {"(c) pod", None},
     description     |-> {"ep description", None},
     ep_image        |-> {"http://ep/img", None},
     pod_image       |-> {"http://pod/img", None},
     categories      |-> {"Tech", ""},
     language        |-> {"en", None},
     itunes_duration |-> {"90", None, "1:30", "4294968"},
     pod_author      |-> {"pod author", None}]

AttrUsual ==
    [ep_author       |-> "ep author",
     pod_title       |-> "pod title",
     itunes_episode  |-> "7",
     copyright       |-> "(c) pod",
     description     |-> "ep description",
     ep_image        |-> "http://ep/img",
     pod_image       |-> "http://pod/img",
     categories      |-> "Tech",
     language        |-> "en",
     itunes_duration |-> "90",
     pod_author      |-> "pod author"]

AttrNames == DOMAIN AttrUsual

Unusual(a) == {n \in AttrNames : a[n] # AttrUsual[n]}

Preset(t) == {f \in AllFrames : t[f] # None}

SubsetsUpTo(S, k) == {T \in SUBSET S : Cardinality(T) <= k}

\* Files holding at most k frames already.
PresetTags(k) ==
    {[f \in AllFrames |-> IF f \in T THEN "old" ELSE None] :
        T \in SubsetsUpTo(AllFrames, k)}

\* Custom tag mappings of at most k entries.
CustomMappings(k) == UNION {[T -> {"custom"}] : T \in SubsetsUpTo(CustomIds, k)}

\* Attributes with at most k values other than the usual one.
AttrProfiles(k) ==
    UNION {
        {[n \in AttrNames |-> IF n \in T THEN g[n] ELSE AttrUsual[n]] :
            g \in {h \in [T -> UNION {AttrValues[n] : n \in T}] :
                      \A n \in T : h[n] \in AttrValues[n] \ {AttrUsual[n]}}} :
        T \in SubsetsUpTo(AttrNames, k)}

\* str::parse::<u32>: the numbers among the strings used here.
ParseU32(str) ==
    CASE str = "7" -> 7
      [] str = "90" -> 90
      [] str = "4294968" -> 4294968
      [] OTHER -> -1

\* u32 arithmetic of line 151, secs * 1000, in numbers the checker can hold:
\* 2^32 = U32Div1000 * 1000 + U32Mod1000, so the product overflows exactly when
\* secs > U32Div1000, and then wraps (below 2 * 2^32) to
\* (secs - U32Div1000) * 1000 - U32Mod1000.
U32Div1000 == 4294967
U32Mod1000 == 296

MillisOverflows(secs) == secs > U32Div1000

\* (secs * 1000).to_string(), the product taken modulo 2^32.
MillisString(secs) ==
    IF MillisOverflows(secs)
    THEN ToString((secs - U32Div1000) * 1000 - U32Mod1000)
    ELSE IF secs = 0 THEN "0" ELSE ToString(secs) \o "000"

\* The outcomes of the artwork fetch of add_picture.
FetchOutcomes == {"ok", "transport_error", "bad_status", "body_error"}

\* add_picture, lines 18-42: a transport error panics (unwrap, line 19); a
\* non-success status or an unreadable body adds nothing; else the picture is
\* added.
add_picture(t, fetch) ==
    IF fetch = "ok" THEN [t EXCEPT ![PictureId] = "picture"] ELSE t

\* Lines 59-61: every custom tag is set, whatever the file holds.
ApplyCustom(t, custom) ==
    [f \in AllFrames |-> IF f \in DOMAIN custom THEN custom[f] ELSE t[f]]

\* Lines 114-121: the category list is set when the file has none; an empty
\* list of categories is set too.
SetCategoriesAppending(t, cats) ==
    [t EXCEPT ![CategoryId] = IF @ = None THEN cats ELSE @ \o "," \o cats]

SetCategories(t, cats) ==
    IF t[CategoryId] = None THEN [t EXCEPT ![CategoryId] = cats] ELSE t

\* if tags.X().is_none() { if let Some(v) = source { tags.set_X(v) } }
SetIfNone(t, f, v) ==
    IF t[f] = None /\ v # None THEN [t EXCEPT ![f] = v] ELSE t

\* tags::set_mp3_tags, lines 49-170, on a file holding `existing`. The result
\* tells whether the call panicked and at which unwrap or multiplication
\* (podcast.title(), podcast.rs line 223; reqwest::get, line 19; secs * 1000,
\* line 151; write_to_path, line 167), whether it fetched the artwork, and
\* the tags it wrote (when it did not panic).
set_mp3_tags(existing, a, custom, fetch, writeOk, checks) ==
    LET t0  == ApplyCustom(existing, custom)
        t1  == SetIfNone(t0, TitleId, "ep title")
        t2  == SetIfNone(t1, ArtistId, a.ep_author)
        albumPanic == t2[AlbumId] = None /\ a.pod_title = None
        t3  == SetIfNone(t2, AlbumId, a.pod_title)
        t4  == SetIfNone(t3, GenreId, "podcast")
        t5  == IF ParseU32(a.itunes_episode) >= 0
               THEN SetIfNone(t4, TrackId, a.itunes_episode) ELSE t4
        t6  == SetIfNone(t5, YearId, "2024")
        t7  == SetIfNone(t6, CopyrightId, a.copyright)
        t8  == SetIfNone(t7, DescriptionId, a.description)
        url == IF a.ep_image # None THEN a.ep_image ELSE a.pod_image
        fetched == t8[PictureId] = None /\ url # None
        fetchPanic == fetched /\ fetch = "transport_error"
        t9  == IF fetched THEN add_picture(t8, fetch) ELSE t8
        t10 == SetCategories(t9, a.categories)
        t11 == SetIfNone(t10, ReleasedId, "2024-05-01T10:00:00")
        t12 == SetIfNone(t11, LanguageId, a.language)
        secs == ParseU32(a.itunes_duration)
        durationSet == t12[DurationId] = None /\ secs >= 0
        overflowPanic == durationSet /\ checks /\ MillisOverflows(secs)
        t13 == IF durationSet
               THEN [t12 EXCEPT ![DurationId] = MillisString(secs)]
               ELSE t12
        t14 == SetIfNone(t13, PublisherId, a.pod_author)
        t15 == SetIfNone(t14, PodcastIdId, "guid")
    IN  [panic   |-> albumPanic \/ fetchPanic \/ overflowPanic \/ ~writeOk,
         why     |-> IF albumPanic THEN "title"
                     ELSE IF fetchPanic THEN "artwork"
                     ELSE IF overflowPanic THEN "overflow"
                     ELSE IF ~writeOk THEN "write" ELSE "none",
         fetched |-> fetched /\ ~albumPanic,
         tags    |-> t15]

TagsIdle ==
    /\ tagPc = "idle"
    /\ fileTags = NoTags
    /\ attrs = AttrUsual
    /\ customTags = <<>>
    /\ overflowChecks = FALSE
    /\ tagsBefore = NoTags
    /\ tagsAfterFirst = NoTags
    /\ fetches = <<>>
    /\ runs = 0
    /\ lastPanic = "none"

\* A downloaded file with the tags it came with, the attributes of its podcast
\* and episode, a custom tag mapping, and the build's overflow checking.
InitTags ==
    /\ tagPc = "ready"
    /\ fileTags \in PresetTags(MaxVariations)
    /\ customTags \in CustomMappings(MaxVariations - Cardinality(Preset(fileTags)))
    /\ attrs \in AttrProfiles(MaxVariations - Cardinality(Preset(fileTags))
                                  - Cardinality(DOMAIN customTags))
    /\ overflowChecks \in BOOLEAN
    /\ tagsBefore = NoTags
    /\ tagsAfterFirst = NoTags
    /\ fetches = <<>>
    /\ runs = 0
    /\ lastPanic = "none"
    /\ SyncIdle
    /\ FeedIdle
    /\ XmlIdle
    /\ NsIdle

\* One call of set_mp3_tags that returns: the file holds the tags it wrote.
RunSetMp3Tags ==
    /\ tagPc = "ready"
    /\ runs < MaxRuns
    /\ \E fetch \in FetchOutcomes :
          LET r == set_mp3_tags(fileTags, attrs, customTags, fetch, TRUE,
                                overflowChecks)
          IN  /\ ~r.panic
              /\ fileTags' = r.tags
              /\ fetches' = Append(fetches, IF r.fetched THEN fetch ELSE "no_fetch")
              /\ tagsAfterFirst' = IF runs = 0 THEN r.tags ELSE tagsAfterFirst
    /\ tagsBefore' = fileTags
    /\ runs' = runs + 1
    /\ tagPc' = "ready"
    /\ lastPanic' = "none"
    /\ UNCHANGED <<varsSync, varsFeed, varsXml, varsNs, attrs, customTags, overflowChecks>>

\* One call of set_mp3_tags that panics: the file is left as it was, and the
\* task that made the call is over.
RunSetMp3TagsPanic ==
    /\ tagPc = "ready"
    /\ runs < MaxRuns
    /\ \E fetch \in FetchOutcomes, writeOk \in BOOLEAN :
          LET r == set_mp3_tags(fileTags, attrs, customTags, fetch, writeOk,
                                overflowChecks)
          IN  /\ r.panic
              /\ lastPanic' = r.why
    /\ tagPc' = "panicked"
    /\ UNCHANGED <<varsSync, varsFeed, varsXml, varsNs, fileTags, attrs, customTags, overflowChecks,
                   tagsBefore, tagsAfterFirst, fetches, runs>>

\* ------------------------------------------------------------------- SpecFeed
\* A raw episode is what the rest of the system reads of one <item>: which
\* required field it lacks (if any) and its publish timestamp; its position in
\* the feed stands for its guid.
RequiredFields == {"title", "guid", "enclosure", "published"}

RawItems ==
    {[missing |-> "none", published |-> t] : t \in 1..MaxTime}
    \cup {[missing |-> m, published |-> IF m = "published" THEN 0 ELSE 1] :
             m \in RequiredFields}

Feeds == UNION {[1..n -> RawItems] : n \in 0..MaxItems}

Modes ==
    {[kind |-> "standard", limit |-> k, cutoff |-> 0] : k \in 0..MaxItems}
    \cup {[kind |-> "backlog", limit |-> 0, cutoff |-> c] : c \in 1..MaxTime}

\* Episode::new: None (the empty sequence here) when a required field is absent
\* or unparseable, else the episode, its index not assigned yet.
EpisodeNew(raw, id) ==
    IF raw.missing = "none"
    THEN <<[id |-> id, published |-> raw.published, index |-> 0]>>
    ELSE <<>>

\* Vec::sort_by_key is a stable sort: an element goes behind every element
\* whose key is less than or equal to its own. `key` names the field sorted by.
RECURSIVE InsertByKey(_, _, _)
InsertByKey(e, sorted, key) ==
    IF sorted = <<>> THEN <<e>>
    ELSE IF Head(sorted)[key] <= e[key]
         THEN <<Head(sorted)>> \o InsertByKey(e, Tail(sorted), key)
         ELSE <<e>> \o sorted

RECURSIVE SortByKey(_, _)
SortByKey(seq, key) ==
    IF seq = <<>> THEN <<>>
    ELSE InsertByKey(seq[Len(seq)], SortByKey(SubSeq(seq, 1, Len(seq) - 1), key), key)

Reverse(seq) == [i \in 1..Len(seq) |-> seq[Len(seq) + 1 - i]]

\* Line 200: episodes.sort_by_key(|episode| episode.published).
SortUnsorted(eps) == eps

SortTiesReversed(eps) == SortByKey(Reverse(eps), "published")

SortByPublished(eps) == SortByKey(eps, "published")

\* Lines 202-206: index = 0, 1, 2, ... in the order of the sorted vector.
AssignIndexByFeedPosition(eps) ==
    [i \in 1..Len(eps) |-> [eps[i] EXCEPT !.index = eps[i].id - 1]]

AssignIndex(eps) ==
    [i \in 1..Len(eps) |-> [eps[i] EXCEPT !.index = i - 1]]

\* Episode::should_download(&mode, qty): never for an episode marked
\* downloaded; Standard(limit): the episode is among the `limit` most recent
\* episodes not yet downloaded; Backlog(cutoff): the episode is at or after the
\* cutoff.
should_download(e, m, qty, eps, dl) ==
    /\ e.id \notin dl
    /\ IF m.kind = "standard"
       THEN Cardinality({i \in 1..qty :
                            eps[i].index > e.index /\ eps[i].id \notin dl}) < m.limit
       ELSE e.published >= m.cutoff

\* Podcast::pending_episodes, lines 299-321.
pending_episodes_unreversed(eps, m, dl) ==
    LET qty == Len(eps)
        pending == SelectSeq(eps, LAMBDA e : should_download(e, m, qty, eps, dl))
    IN  SortByKey(pending, "index")

pending_episodes_reversed(eps, m, dl) ==
    LET qty == Len(eps)
        pending == SelectSeq(eps, LAMBDA e : should_download(e, m, qty, eps, dl))
    IN  Reverse(SortByKey(pending, "index"))

pending_episodes(eps, m, dl) ==
    LET qty == Len(eps)
        pending == SelectSeq(eps, LAMBDA e : should_download(e, m, qty, eps, dl))
    IN  IF m.kind = "backlog"
        THEN SortByKey(pending, "index")
        ELSE Reverse(SortByKey(pending, "index"))

\* The feed was fetched and decoded: raw_episodes and the mode of the podcast.
InitFeed ==
    /\ feedPc = "build"
    /\ rawEpisodes \in Feeds
    /\ rawPos = 0
    /\ episodes = <<>>
    /\ mode \in Modes
    /\ isDownloaded = {}
    /\ pendingSeq = <<>>
    /\ SyncIdle
    /\ TagsIdle
    /\ XmlIdle
    /\ NsIdle

\* Lines 193-198: one turn of the loop over raw_episodes; an item for which
\* Episode::new gives None is not pushed.
NewTakeEpisode ==
    /\ feedPc = "build"
    /\ rawPos < Len(rawEpisodes)
    /\ rawPos' = rawPos + 1
    /\ episodes' = episodes \o EpisodeNew(rawEpisodes[rawPos + 1], rawPos + 1)
    /\ UNCHANGED <<varsSync, varsTags, varsXml, varsNs, feedPc, rawEpisodes, mode, isDownloaded,
                   pendingSeq>>

\* Lines 200-210: sort, assign the indices, podcast.episodes = episodes.
NewSortAndIndex ==
    /\ feedPc = "build"
    /\ rawPos = Len(rawEpisodes)
    /\ episodes' = AssignIndex(SortByPublished(episodes))
    /\ feedPc' = "ready"
    /\ UNCHANGED <<varsSync, varsTags, varsXml, varsNs, rawEpisodes, rawPos, mode, isDownloaded,
                   pendingSeq>>

\* Line 269: pending_episodes, with the downloaded markers as persisted then.
PendingEpisodes ==
    /\ feedPc = "ready"
    /\ \E dl \in SUBSET {episodes[i].id : i \in 1..Len(episodes)} :
          /\ isDownloaded' = dl
          /\ pendingSeq' = pending_episodes(episodes, mode, dl)
    /\ feedPc' = "pending"
    /\ UNCHANGED <<varsSync, varsTags, varsXml, varsNs, rawEpisodes, rawPos, episodes, mode>>

\* ------------------------------------------------------------------- SpecSync
\* Podcasts::new followed by Podcasts::add: any set of configured podcasts; the
\* HashMap iterates them in an order of its own.
InitSync ==
    /\ syncPc = "start"
    /\ configured \in SUBSET PodNames
    /\ order = <<>>
    /\ pc = [p \in PodNames |-> "none"]
    /\ feedRes = [p \in PodNames |-> "none"]
    /\ pendingLen = [p \in PodNames |-> 0]
    /\ pos = [p \in PodNames |-> 0]
    /\ epState = [p \in PodNames |-> [k \in Positions |-> "pending"]]
    /\ handle = [p \in PodNames |-> [k \in Positions |-> "unset"]]
    /\ marked = [p \in PodNames |-> {}]
    /\ downloaded = [p \in PodNames |-> <<>>]
    /\ awaitPos = [p \in PodNames |-> 0]
    /\ paths = [p \in PodNames |-> <<>>]
    /\ ret = [p \in PodNames |-> <<>>]
    /\ ui = [p \in PodNames |-> <<>>]
    /\ result = <<>>
    /\ panicCause = [p \in PodNames |-> "none"]
    /\ FeedIdle
    /\ TagsIdle
    /\ XmlIdle
    /\ NsIdle

\* Podcasts::sync, lines 105-135: no podcast configured returns vec![] at once;
\* otherwise one task is spawned per podcast.
SyncSpawn ==
    /\ syncPc = "start"
    /\ IF configured = {}
       THEN /\ syncPc' = "returned"
            /\ pc' = pc
            /\ order' = <<>>
       ELSE /\ syncPc' = "joining"
            /\ order' \in Perms(configured)
            /\ pc' = [p \in PodNames |-> IF p \in configured THEN "new" ELSE "none"]
    /\ result' = <<>>
    /\ UNCHANGED <<varsFeed, varsTags, varsXml, varsNs, panicCause, configured, feedRes, pendingLen, pos, epState,
                   handle, marked, downloaded, awaitPos, paths, ret, ui>>

\* Podcast::new fails (feed not downloaded, or xml_to_value gives None): the task
\* reports the error and returns vec![] (lines 128-131).
PodcastNewErrGoesOn(p) ==
    /\ pc[p] = "new"
    /\ \E why \in {"fetch_fail", "parse_fail"} :
          feedRes' = [feedRes EXCEPT ![p] = why]
    /\ ui' = [ui EXCEPT ![p] = @ \o <<"fetching", "error">>]
    /\ pc' = [pc EXCEPT ![p] = "sync"]
    /\ UNCHANGED <<varsFeed, varsTags, varsXml, varsNs, panicCause, syncPc, configured, order, pendingLen, pos,
                   epState, handle, marked, downloaded, awaitPos, paths, ret, result>>

PodcastNewErr(p) ==
    /\ pc[p] = "new"
    /\ \E why \in {"fetch_fail", "parse_fail"} :
          feedRes' = [feedRes EXCEPT ![p] = why]
    /\ ui' = [ui EXCEPT ![p] = @ \o <<"fetching", "error">>]
    /\ ret' = [ret EXCEPT ![p] = <<>>]
    /\ pc' = [pc EXCEPT ![p] = "done"]
    /\ UNCHANGED <<varsFeed, varsTags, varsXml, varsNs, panicCause, syncPc, configured, order, pendingLen, pos, epState, handle,
                   marked, downloaded, awaitPos, paths, result>>

\* Podcast::new succeeds (line 127 goes on to podcast.sync).
PodcastNewOk(p) ==
    /\ pc[p] = "new"
    /\ feedRes' = [feedRes EXCEPT ![p] = "ok"]
    /\ ui' = [ui EXCEPT ![p] = @ \o <<"fetching">>]
    /\ pc' = [pc EXCEPT ![p] = "sync"]
    /\ UNCHANGED <<varsFeed, varsTags, varsXml, varsNs, panicCause, syncPc, configured, order, pendingLen, pos, epState, handle,
                   marked, downloaded, awaitPos, paths, ret, result>>

\* Podcast::sync, lines 267-270: ui.init, the eligible sequence, downloaded = [].
SyncBegin(p) ==
    /\ pc[p] = "sync"
    /\ \E n \in 0..MaxPending : pendingLen' = [pendingLen EXCEPT ![p] = n]
    /\ ui' = [ui EXCEPT ![p] = @ \o <<"init">>]
    /\ downloaded' = [downloaded EXCEPT ![p] = <<>>]
    /\ pos' = [pos EXCEPT ![p] = 0]
    /\ pc' = [pc EXCEPT ![p] = "loop"]
    /\ UNCHANGED <<varsFeed, varsTags, varsXml, varsNs, panicCause, syncPc, configured, order, feedRes, epState, handle, marked,
                   awaitPos, paths, ret, result>>

\* The `.await` of line 274: the loop body goes on only when the
\* download_episode future it started has returned.
AwaitedNever(p) == TRUE

Awaited(p) == InPipeline(p) = {}

\* Lines 272-274: the loop takes its next item, ui.begin_download, and
\* download_episode starts with episode.download.
BeginDownload(p) ==
    /\ pc[p] = "loop"
    /\ Awaited(p)
    /\ pos[p] < pendingLen[p]
    /\ pos' = [pos EXCEPT ![p] = @ + 1]
    /\ ui' = [ui EXCEPT ![p] = @ \o <<"begin">>]
    /\ epState' = [epState EXCEPT ![p][pos[p] + 1] = "download"]
    /\ UNCHANGED <<varsFeed, varsTags, varsXml, varsNs, panicCause, syncPc, configured, order, pc, feedRes, pendingLen, handle,
                   marked, downloaded, awaitPos, paths, ret, result>>

\* Line 258: episode.download(..).await gives a DownloadedEpisode.
DownloadMarksAtOnce(p, k) ==
    /\ pc[p] = "loop"
    /\ epState[p][k] = "download"
    /\ epState' = [epState EXCEPT ![p][k] = "tags"]
    /\ marked' = [marked EXCEPT ![p] = @ \cup {k}]
    /\ UNCHANGED <<varsFeed, varsTags, varsXml, varsNs, panicCause, syncPc, configured, order, pc, feedRes, pendingLen, pos, handle,
                   downloaded, awaitPos, paths, ret, ui, result>>

Download(p, k) ==
    /\ pc[p] = "loop"
    /\ epState[p][k] = "download"
    /\ epState' = [epState EXCEPT ![p][k] = "tags"]
    /\ UNCHANGED <<varsFeed, varsTags, varsXml, varsNs, panicCause, syncPc, configured, order, pc, feedRes, pendingLen, pos, handle,
                   marked, downloaded, awaitPos, paths, ret, ui, result>>

\* Line 259 and lines 323-329: Podcast::set_mp3_tags runs tags::set_mp3_tags on
\* an mp3 path and returns Ok(()) in every case it returns.
SetMp3TagsOk(p, k) ==
    /\ pc[p] = "loop"
    /\ epState[p][k] = "tags"
    /\ epState' = [epState EXCEPT ![p][k] = "process"]
    /\ UNCHANGED <<varsFeed, varsTags, varsXml, varsNs, panicCause, syncPc, configured, order, pc, feedRes, pendingLen, pos, handle,
                   marked, downloaded, awaitPos, paths, ret, ui, result>>

\* The places where tags::set_mp3_tags panics: podcast.title() (podcast.rs
\* line 223), the artwork request (tags.rs line 19), secs * 1000 (line 151)
\* and write_to_path (line 167).
PanicCauses == {"title", "artwork", "overflow", "write"}

\* tags::set_mp3_tags panics: the task ends abnormally, Podcast::sync never
\* returns.
SetMp3TagsPanic(p, k) ==
    /\ pc[p] = "loop"
    /\ epState[p][k] = "tags"
    /\ epState' = [epState EXCEPT ![p][k] = "panicked"]
    /\ pc' = [pc EXCEPT ![p] = "panicked"]
    /\ \E why \in PanicCauses : panicCause' = [panicCause EXCEPT ![p] = why]
    /\ UNCHANGED <<varsFeed, varsTags, varsXml, varsNs, syncPc, configured, order, feedRes, pendingLen, pos, handle,
                   marked, downloaded, awaitPos, paths, ret, ui, result>>

\* Line 260: episode.process().await? succeeds.
ProcessOk(p, k) ==
    /\ pc[p] = "loop"
    /\ epState[p][k] = "process"
    /\ epState' = [epState EXCEPT ![p][k] = "finish"]
    /\ UNCHANGED <<varsFeed, varsTags, varsXml, varsNs, panicCause, syncPc, configured, order, pc, feedRes, pendingLen, pos, handle,
                   marked, downloaded, awaitPos, paths, ret, ui, result>>

\* Line 260 returns the error; lines 276-279 report it and break; lines 283-285
\* start the collection of the paths.
ProcessErrNoBreak(p, k) ==
    /\ pc[p] = "loop"
    /\ epState[p][k] = "process"
    /\ epState' = [epState EXCEPT ![p][k] = "err"]
    /\ ui' = [ui EXCEPT ![p] = @ \o <<"error">>]
    /\ UNCHANGED <<varsFeed, varsTags, varsXml, varsNs, panicCause, syncPc, configured, order, pc, feedRes, pendingLen, pos, handle,
                   marked, downloaded, awaitPos, paths, ret, result>>

ProcessErr(p, k) ==
    /\ pc[p] = "loop"
    /\ epState[p][k] = "process"
    /\ epState' = [epState EXCEPT ![p][k] = "err"]
    /\ ui' = [ui EXCEPT ![p] = @ \o <<"error", "hook_status">>]
    /\ paths' = [paths EXCEPT ![p] = <<>>]
    /\ awaitPos' = [awaitPos EXCEPT ![p] = 0]
    /\ pc' = [pc EXCEPT ![p] = "await"]
    /\ UNCHANGED <<varsFeed, varsTags, varsXml, varsNs, panicCause, syncPc, configured, order, feedRes, pendingLen, pos, handle,
                   marked, downloaded, ret, result>>

\* Lines 261-263 and 275: the hook is launched in the background (when one is
\* configured), the episode is marked downloaded, and the DownloadedEpisode is
\* pushed to `downloaded`.
Finish(p, k) ==
    /\ pc[p] = "loop"
    /\ epState[p][k] = "finish"
    /\ \E hook \in BOOLEAN :
          handle' = [handle EXCEPT ![p][k] = IF hook THEN "running" ELSE "absent"]
    /\ marked' = [marked EXCEPT ![p] = @ \cup {k}]
    /\ epState' = [epState EXCEPT ![p][k] = "ok"]
    /\ downloaded' = [downloaded EXCEPT ![p] = Append(@, k)]
    /\ UNCHANGED <<varsFeed, varsTags, varsXml, varsNs, panicCause, syncPc, configured, order, pc, feedRes, pendingLen, pos,
                   awaitPos, paths, ret, ui, result>>

\* The background work of an episode ends by itself, whatever its task does.
BackgroundEnds(p, k) ==
    /\ handle[p][k] = "running"
    /\ handle' = [handle EXCEPT ![p][k] = "finished"]
    /\ UNCHANGED <<varsFeed, varsTags, varsXml, varsNs, panicCause, syncPc, configured, order, pc, feedRes, pendingLen, pos, epState,
                   marked, downloaded, awaitPos, paths, ret, ui, result>>

\* Lines 272 and 283-285: the loop found no further item.
LoopEnd(p) ==
    /\ pc[p] = "loop"
    /\ Awaited(p)
    /\ pos[p] = pendingLen[p]
    /\ ui' = [ui EXCEPT ![p] = @ \o <<"hook_status">>]
    /\ paths' = [paths EXCEPT ![p] = <<>>]
    /\ awaitPos' = [awaitPos EXCEPT ![p] = 0]
    /\ pc' = [pc EXCEPT ![p] = "await"]
    /\ UNCHANGED <<varsFeed, varsTags, varsXml, varsNs, panicCause, syncPc, configured, order, feedRes, pendingLen, pos, epState,
                   handle, marked, downloaded, ret, result>>

\* Line 287: episode.await_handle().await returns when the background work of
\* that episode has ended (at once when there is none).
HandleReadyUnawaited(p, k) == TRUE

HandleReady(p, k) == handle[p][k] \in {"finished", "absent"}

\* Lines 286-289: one turn of the loop over `downloaded`.
AwaitHandle(p) ==
    /\ pc[p] = "await"
    /\ awaitPos[p] < Len(downloaded[p])
    /\ LET k == downloaded[p][awaitPos[p] + 1] IN
          /\ HandleReady(p, k)
          /\ handle' = [handle EXCEPT ![p][k] =
                           IF @ = "finished" THEN "joined" ELSE @]
          /\ paths' = [paths EXCEPT ![p] = Append(@, Path(p, k))]
    /\ awaitPos' = [awaitPos EXCEPT ![p] = @ + 1]
    /\ UNCHANGED <<varsFeed, varsTags, varsXml, varsNs, panicCause, syncPc, configured, order, pc, feedRes, pendingLen, pos, epState,
                   marked, downloaded, ret, ui, result>>

\* Lines 291-292: ui.complete and the paths are returned.
Complete(p) ==
    /\ pc[p] = "await"
    /\ awaitPos[p] = Len(downloaded[p])
    /\ ui' = [ui EXCEPT ![p] = @ \o <<"complete">>]
    /\ ret' = [ret EXCEPT ![p] = paths[p]]
    /\ pc' = [pc EXCEPT ![p] = "done"]
    /\ UNCHANGED <<varsFeed, varsTags, varsXml, varsNs, panicCause, syncPc, configured, order, feedRes, pendingLen, pos, epState,
                   handle, marked, downloaded, awaitPos, paths, result>>

\* What a finished task gives join_all: Ok(paths), or Err for a panicked task,
\* which filter_map(Result::ok) drops (line 140).
Joined(p) == IF pc[p] = "done" THEN ret[p] ELSE <<>>

RECURSIVE Flatten(_)
Flatten(ord) ==
    IF ord = <<>> THEN <<>> ELSE Joined(Head(ord)) \o Flatten(Tail(ord))

\* Lines 137-142: join_all, then the Ok results flattened in task order.
JoinAll ==
    /\ syncPc = "joining"
    /\ \A p \in configured : pc[p] \in {"done", "panicked"}
    /\ result' = Flatten(order)
    /\ syncPc' = "returned"
    /\ UNCHANGED <<varsFeed, varsTags, varsXml, varsNs, panicCause, configured, order, pc, feedRes, pendingLen, pos, epState, handle,
                   marked, downloaded, awaitPos, paths, ret, ui>>

\* All steps of the task of podcast p (and of its background work).
TaskStep(p) ==
    \/ PodcastNewErr(p)
    \/ PodcastNewOk(p)
    \/ SyncBegin(p)
    \/ BeginDownload(p)
    \/ LoopEnd(p)
    \/ AwaitHandle(p)
    \/ Complete(p)
    \/ \E k \in Positions :
          \/ Download(p, k)
          \/ SetMp3TagsOk(p, k)
          \/ SetMp3TagsPanic(p, k)
          \/ ProcessOk(p, k)
          \/ ProcessErr(p, k)
          \/ Finish(p, k)
          \/ BackgroundEnds(p, k)

\* -------------------------------------------------------------------- SpecXml
\* A string is a sequence of tokens, so that the text replacements of
\* xml_to_value act on it: the namespace prefixes "itunes:" and "media:" and
\* the replacement are tokens of their own. An element has a name, a text and
\* child elements; a document is well formed or not, and has a root element.
placeholder == "__placeholder__"

replacement == "itunes" \o placeholder

ItunesPrefix == "itunes:"

NamespacePrefixes == {ItunesPrefix, "media:"}

\* str.replace(from, to)
Replace(str, from, to) ==
    [i \in DOMAIN str |-> IF str[i] = from THEN to ELSE str[i]]

Leaf(name, text) == [name |-> name, text |-> text, kids |-> <<>>]

Node(name, kids) == [name |-> name, text |-> <<>>, kids |-> kids]

\* Line 26: xml.replace("itunes:", &replacement) runs over the whole text of the
\* document: every element name and every text.
RECURSIVE ReplaceInElement(_)
ReplaceInElement(e) ==
    [name |-> Replace(e.name, ItunesPrefix, replacement),
     text |-> Replace(e.text, ItunesPrefix, replacement),
     kids |-> [i \in DOMAIN e.kids |-> ReplaceInElement(e.kids[i])]]

\* serde_json values.
JNull == [kind |-> "null", text |-> <<>>, members |-> <<>>, elems |-> <<>>]

JString(t) == [kind |-> "string", text |-> t, members |-> <<>>, elems |-> <<>>]

JObject(m) == [kind |-> "object", text |-> <<>>, members |-> m, elems |-> <<>>]

JArray(vs) == [kind |-> "array", text |-> <<>>, members |-> <<>>, elems |-> vs]

\* The library names an element by its local name: a namespace prefix is
\* dropped, which merges the namespaces (lines 19-22).
LocalName(name) ==
    IF name # <<>> /\ Head(name) \in NamespacePrefixes THEN Tail(name) ELSE name

\* xml_string_to_json with the default configuration (lines 27-29): an element
\* with children is an object keyed by the children's local names, children of
\* the same key make an array, a childless element is its text, or null.
RECURSIVE ToJson(_)
RECURSIVE KidsToMap(_)
ToJson(e) ==
    IF e.kids # <<>> THEN JObject(KidsToMap(e.kids))
    ELSE IF e.text # <<>> THEN JString(e.text)
    ELSE JNull

KidsToMap(kids) ==
    [k \in {LocalName(kids[i].name) : i \in DOMAIN kids} |->
        LET vs == SelectSeq(kids, LAMBDA d : LocalName(d.name) = k)
        IN  IF Len(vs) = 1 THEN ToJson(vs[1])
            ELSE JArray([i \in DOMAIN vs |-> ToJson(vs[i])])]

\* Value::get_mut(key): an Option, as a sequence of at most one value.
Get(v, key) ==
    IF v.kind = "object" /\ key \in DOMAIN v.members
    THEN <<v.members[key]>> ELSE <<>>

\* Lines 38-43 and 52-56: the keys of one map are renamed back, the values are
\* cloned as they are.
RenameKeys(m) ==
    [k \in {Replace(j, replacement, ItunesPrefix) : j \in DOMAIN m} |->
        m[CHOOSE j \in DOMAIN m : Replace(j, replacement, ItunesPrefix) = k]]

\* Line 47: val.as_object_mut()?.get_mut("item")?.as_array_mut()?
ItemArrayOrEmpty(val) ==
    IF Get(val, <<"item">>) # <<>> /\ Get(val, <<"item">>)[1].kind = "array"
    THEN [ok |-> TRUE, items |-> Get(val, <<"item">>)[1].elems]
    ELSE [ok |-> TRUE, items |-> <<>>]

ItemArray(val) ==
    IF Get(val, <<"item">>) # <<>> /\ Get(val, <<"item">>)[1].kind = "array"
    THEN [ok |-> TRUE, items |-> Get(val, <<"item">>)[1].elems]
    ELSE [ok |-> FALSE, items |-> <<>>]

NoneValue == [kind |-> "none", podcast |-> <<>>, episodes |-> <<>>]

\* xml_to_value, lines 23-62. The result is None, Some((podcast, episodes)),
\* or a panic of item.as_object().unwrap() (line 53).
xml_to_value(doc) ==
    LET xml     == ReplaceInElement(doc.root)
        top     == JObject(KidsToMap(<<xml>>))
        rss     == Get(top, <<"rss">>)
        channel == IF rss = <<>> THEN <<>> ELSE Get(rss[1], <<"channel">>)
    IN  IF ~doc.wellFormed \/ channel = <<>> THEN NoneValue
        ELSE LET val     == channel[1]
                 new_map == IF val.kind = "object"
                            THEN RenameKeys(val.members) ELSE <<>>
                 arr     == ItemArray(val)
             IN  IF ~arr.ok THEN NoneValue
                 ELSE IF \E i \in DOMAIN arr.items : arr.items[i].kind # "object"
                 THEN [kind |-> "panic", podcast |-> <<>>, episodes |-> <<>>]
                 ELSE [kind     |-> "some",
                       podcast  |-> new_map,
                       episodes |-> [i \in DOMAIN arr.items |->
                                        RenameKeys(arr.items[i].members)]]

\* The elements a channel is made of here: a plain and an itunes title, an
\* itunes element with an itunes child, and a text that mentions "itunes:".
PlainTitle == Leaf(<<"title">>, <<"plain title">>)

ItunesTitle == Leaf(<<ItunesPrefix, "title">>, <<"itunes title">>)

ItunesOwner ==
    Node(<<ItunesPrefix, "owner">>, <<Leaf(<<ItunesPrefix, "name">>, <<"N">>)>>)

ItunesSummary ==
    Leaf(<<ItunesPrefix, "summary">>, <<"see ", ItunesPrefix, "author">>)

ChannelElements == {PlainTitle, ItunesTitle, ItunesOwner, ItunesSummary}

\* The items: with one child, without any (<item/>), or made of text only.
ItemShapes ==
    {Node(<<"item">>, <<e>>) : e \in {PlainTitle, ItunesTitle, ItunesSummary}}
    \cup {Leaf(<<"item">>, <<>>), Leaf(<<"item">>, <<"text">>)}

SeqsUpTo(S, n) == UNION {[1..k -> S] : k \in 0..n}

\* The documents: <rss><channel> with children and items, and the documents
\* without that structure.
Documents ==
    {[wellFormed |-> TRUE,
      root |-> Node(<<"rss">>, <<Node(<<"channel">>, kids \o items)>>)] :
         kids \in SeqsUpTo(ChannelElements, MaxChannelKids) \ {<<>>},
         items \in SeqsUpTo(ItemShapes, MaxXmlItems)}
    \cup {[wellFormed |-> wf, root |-> r] :
             wf \in BOOLEAN,
             r \in {Node(<<"html">>, <<PlainTitle>>),
                    Leaf(<<"rss">>, <<>>),
                    Node(<<"rss">>, <<PlainTitle>>),
                    Node(<<"rss">>, <<Leaf(<<"channel">>, <<>>)>>),
                    Node(<<"rss">>, <<Leaf(<<"channel">>, <<"text">>)>>),
                    Node(<<"rss">>, <<Node(<<"channel">>,
                                           <<PlainTitle, Node(<<"item">>, <<PlainTitle>>),
                                             Node(<<"item">>, <<ItunesTitle>>)>>)>>)}}

InitXml ==
    /\ xmlPc = "ready"
    /\ xmlDoc \in Documents
    /\ xmlOut = NoOut
    /\ newRes = "none"
    /\ SyncIdle
    /\ FeedIdle
    /\ TagsIdle
    /\ NsIdle

\* xml_to_value returns.
XmlToValue ==
    /\ xmlPc = "ready"
    /\ xml_to_value(xmlDoc).kind # "panic"
    /\ xmlOut' = xml_to_value(xmlDoc)
    /\ xmlPc' = "decoded"
    /\ UNCHANGED <<varsSync, varsFeed, varsTags, varsNs, xmlDoc, newRes>>

\* xml_to_value panics at line 53: Podcast::new does not return.
XmlToValuePanic ==
    /\ xmlPc = "ready"
    /\ xml_to_value(xmlDoc).kind = "panic"
    /\ xmlPc' = "panicked"
    /\ UNCHANGED <<varsSync, varsFeed, varsTags, varsNs, xmlDoc, xmlOut, newRes>>

\* Podcast::new, lines 179-181: None gives Err("failed to parse xml").
PodcastNewParseErr ==
    /\ xmlPc = "decoded"
    /\ xmlOut.kind = "none"
    /\ newRes' = "failed to parse xml"
    /\ xmlPc' = "done"
    /\ UNCHANGED <<varsSync, varsFeed, varsTags, varsNs, xmlDoc, xmlOut>>

\* Podcast::new, lines 179-189: Some gives the Podcast under construction.
PodcastNewParsed ==
    /\ xmlPc = "decoded"
    /\ xmlOut.kind = "some"
    /\ newRes' = "podcast"
    /\ xmlPc' = "done"
    /\ UNCHANGED <<varsSync, varsFeed, varsTags, varsNs, xmlDoc, xmlOut>>

\* --------------------------------------------------------------------- SpecNs
\* utils::remove_xml_namespaces. A name is a sequence of tokens in which the
\* colon is a token of its own; a text is a sequence of tokens in which " " is
\* white space. The document is the sequence of its pieces: start tags, end
\* tags, self-closing tags, texts, and a piece the reader cannot parse.
NAMESPACE_ALTER == "__placeholder__"

\* modify_name, lines 84-93: the first colon of the name is replaced.
modify_name(original_name, repl) ==
    IF \E i \in DOMAIN original_name : original_name[i] = ":"
    THEN LET at == CHOOSE i \in DOMAIN original_name :
                       /\ original_name[i] = ":"
                       /\ \A j \in 1..(i - 1) : original_name[j] # ":"
         IN  SubSeq(original_name, 1, at - 1) \o <<repl>>
                 \o SubSeq(original_name, at + 1, Len(original_name))
    ELSE original_name

StartTag(name, hasAttrs) == [kind |-> "Start", name |-> name, attrs |-> hasAttrs, text |-> <<>>]

EndTag(name) == [kind |-> "End", name |-> name, attrs |-> FALSE, text |-> <<>>]

EmptyTag(name, hasAttrs) == [kind |-> "Empty", name |-> name, attrs |-> hasAttrs, text |-> <<>>]

TextPiece(text) == [kind |-> "Text", name |-> <<>>, attrs |-> FALSE, text |-> text]

ErrPiece == [kind |-> "Err", name |-> <<>>, attrs |-> FALSE, text |-> <<>>]

\* Line 96, reader.trim_text(true): the reader gives a text without the white
\* space at its ends.
RECURSIVE TrimStart(_)
TrimStart(text) ==
    IF text # <<>> /\ Head(text) = " " THEN TrimStart(Tail(text)) ELSE text

TrimText(text) == Reverse(TrimStart(Reverse(TrimStart(text))))

\* The elements a document body is made of here: the two elements of the
\* test at lines 201-214, a plain element, a text with white space at its
\* ends, a start tag with attributes, self-closing tags, a broken piece.
FooBar == <<"foo", ":", "bar">>

BazQux == <<"baz", ":", "qux">>

BodyElements ==
    {<<StartTag(FooBar, FALSE), TextPiece(<<"Content">>), EndTag(FooBar)>>,
     <<StartTag(BazQux, FALSE), TextPiece(<<"More", " ", "Content">>), EndTag(BazQux)>>,
     <<StartTag(<<"plain">>, FALSE), TextPiece(<<"Content">>), EndTag(<<"plain">>)>>,
     <<StartTag(FooBar, FALSE), TextPiece(<<" ", "Content", " ">>), EndTag(FooBar)>>,
     <<StartTag(FooBar, TRUE), EndTag(FooBar)>>,
     <<EmptyTag(FooBar, TRUE)>>,
     <<EmptyTag(<<"plain">>, FALSE)>>,
     <<ErrPiece>>}

RECURSIVE Concat(_)
Concat(seqs) == IF seqs = <<>> THEN <<>> ELSE Head(seqs) \o Concat(Tail(seqs))

NsDocuments ==
    {<<StartTag(<<"root">>, FALSE)>> \o Concat(body) \o <<EndTag(<<"root">>)>> :
        body \in SeqsUpTo(BodyElements, MaxPieces)}

InitNs ==
    /\ nsPc = "reading"
    /\ nsRepl \in {NAMESPACE_ALTER, "___placeholder___"}
    /\ nsIn \in NsDocuments
    /\ nsPos = 0
    /\ nsOut = <<>>
    /\ SyncIdle
    /\ FeedIdle
    /\ TagsIdle
    /\ XmlIdle

\* The event read_event gives next (lines 99-100).
NextEvent == nsIn[nsPos + 1]

NsReading == nsPc = "reading" /\ nsPos < Len(nsIn)

\* Lines 101-109: a start tag is written anew under the modified name; the
\* new BytesStart has no attributes.
NsStart ==
    /\ NsReading
    /\ NextEvent.kind = "Start"
    /\ nsOut' = Append(nsOut, StartTag(modify_name(NextEvent.name, nsRepl), FALSE))
    /\ nsPos' = nsPos + 1
    /\ UNCHANGED <<varsSync, varsFeed, varsTags, varsXml, nsPc, nsRepl, nsIn>>

\* Lines 110-118: an end tag is written under the modified name.
NsEnd ==
    /\ NsReading
    /\ NextEvent.kind = "End"
    /\ nsOut' = Append(nsOut, EndTag(modify_name(NextEvent.name, nsRepl)))
    /\ nsPos' = nsPos + 1
    /\ UNCHANGED <<varsSync, varsFeed, varsTags, varsXml, nsPc, nsRepl, nsIn>>

\* Line 120: every other event is written as the reader gave it: a
\* self-closing tag as it is, a text trimmed.
NsOther ==
    /\ NsReading
    /\ NextEvent.kind \in {"Empty", "Text"}
    /\ nsOut' = Append(nsOut, [NextEvent EXCEPT !.text = TrimText(@)])
    /\ nsPos' = nsPos + 1
    /\ UNCHANGED <<varsSync, varsFeed, varsTags, varsXml, nsPc, nsRepl, nsIn>>

\* Line 121: the reader fails, the function panics.
NsError ==
    /\ NsReading
    /\ NextEvent.kind = "Err"
    /\ nsPc' = "panicked"
    /\ UNCHANGED <<varsSync, varsFeed, varsTags, varsXml, nsRepl, nsIn, nsPos, nsOut>>

\* Lines 119 and 125-126: at Eof the loop ends and the text written is returned.
NsEof ==
    /\ nsPc = "reading"
    /\ nsPos = Len(nsIn)
    /\ nsPc' = "done"
    /\ UNCHANGED <<varsSync, varsFeed, varsTags, varsXml, nsRepl, nsIn, nsPos, nsOut>>

\* ------------------------------------------------------------ claims, SpecSync
CountOf(seq, x) == Len(SelectSeq(seq, LAMBDA e : e = x))

\* The paths of podcast p in the value Podcasts::sync returned.
PathsOf(p) == SelectSeq(result, LAMBDA x : x[1] = p)

\* The paths of the loop positions 1..n of podcast p, in loop order.
PrefixPaths(p, n) == [k \in 1..n |-> Path(p, k)]

\* The number of episodes of p that succeeded before its first failure.
LeadingOk(p) ==
    Cardinality({n \in Positions : \A k \in 1..n : epState[p][k] = "ok"})

\* What podcast q contributes, as its own feed and its own episodes decide it.
OwnPaths(q) ==
    IF feedRes[q] # "ok" \/ pc[q] = "panicked" THEN <<>>
    ELSE PrefixPaths(q, LeadingOk(q))

Running(q) == pc[q] \notin {"none", "done", "panicked"}

\* C1: when download_episode returns an error at loop position i (0-based i-1),
\* no later position is ever attempted, all earlier ones succeeded, the podcast
\* returns exactly the paths of the positions before i, in loop order, and what
\* every sibling podcast contributes to the result of Podcasts::sync is what its
\* own feed and episodes decide.
C1_EpisodeFailureKeepsPrefix ==
    \A p \in PodNames : \A i \in Positions :
        epState[p][i] = "err" =>
            /\ \A j \in Positions : j > i => epState[p][j] = "pending"
            /\ \A j \in Positions : j < i => epState[p][j] = "ok"
            /\ pc[p] = "done" => ret[p] = PrefixPaths(p, i - 1)
            /\ syncPc = "returned" =>
                  /\ PathsOf(p) = PrefixPaths(p, i - 1)
                  /\ \A q \in PodNames \ {p} : PathsOf(q) = OwnPaths(q)

C1_Witness ==
    /\ syncPc = "returned"
    /\ \E p \in PodNames : \E q \in PodNames \ {p} :
          /\ epState[p][2] = "err"
          /\ PathsOf(p) = <<Path(p, 1)>>
          /\ PathsOf(q) = <<Path(q, 1), Path(q, 2)>>

\* C2: a podcast whose Podcast::new failed reports exactly one error, attempts
\* no episode, returns no path and has no path in the result of Podcasts::sync;
\* every other podcast's task keeps running (it always has a step to take until
\* it ends) and contributes what its own feed and episodes decide.
C2_FeedFailureIsolated ==
    \A p \in PodNames :
        feedRes[p] \in {"fetch_fail", "parse_fail"} =>
            /\ CountOf(ui[p], "error") = 1
            /\ CountOf(ui[p], "begin") = 0
            /\ \A k \in Positions : epState[p][k] = "pending"
            /\ pc[p] = "done"
            /\ ret[p] = <<>>
            /\ \A q \in PodNames \ {p} : Running(q) => ENABLED TaskStep(q)
            /\ syncPc = "returned" =>
                  /\ PathsOf(p) = <<>>
                  /\ \A q \in PodNames \ {p} : PathsOf(q) = OwnPaths(q)

C2_Witness ==
    /\ syncPc = "returned"
    /\ \E p \in PodNames : \E q \in PodNames \ {p} :
          /\ feedRes[p] = "parse_fail"
          /\ ui[p] = <<"fetching", "error">>
          /\ PathsOf(p) = <<>>
          /\ result = <<Path(q, 1), Path(q, 2)>>

\* C3: once Podcast::sync has signalled ui.complete or returned its paths, the
\* background handle of every episode downloaded in that run has been awaited
\* to its end (or the episode had no background work).
C3_ReturnAfterHandlesAwaited ==
    \A p \in PodNames :
        (pc[p] = "done" \/ CountOf(ui[p], "complete") > 0) =>
            \A k \in Positions :
                epState[p][k] = "ok" => handle[p][k] \in {"joined", "absent"}

\* One podcast whose loop aborted and one whose loop ran to its end, each with
\* a background handle awaited.
C3_Witness ==
    \E p \in PodNames : \E q \in PodNames \ {p} :
        /\ pc[p] = "done" /\ epState[p][2] = "err" /\ handle[p][1] = "joined"
        /\ ret[p] = <<Path(p, 1)>>
        /\ pc[q] = "done" /\ epState[q][2] = "ok" /\ handle[q][2] = "joined"
        /\ ret[q] = <<Path(q, 1), Path(q, 2)>>

\* C4: in one podcast at most one episode is in the synchronous pipeline, and
\* position j+1 is started only after position j succeeded; a step of one
\* podcast's task never takes away the next step of another podcast's task, so
\* the tasks interleave freely.
C4_PipelineSequential ==
    \A p \in PodNames :
        /\ Cardinality(InPipeline(p)) <= 1
        /\ \A j \in Positions : \A i \in Positions :
              (i < j /\ epState[p][j] # "pending") => epState[p][i] = "ok"

C4_TasksIndependent ==
    \A p \in PodNames : \A q \in PodNames \ {p} :
        ((ENABLED TaskStep(p)) /\ TaskStep(q)) => (ENABLED TaskStep(p))'

C4_OrderedWithinFreeAcross ==
    [](C4_PipelineSequential) /\ [][C4_TasksIndependent]_vars

\* The background work of position 1 still runs while position 2 is in its
\* pipeline, and the other podcast is in the middle of a pipeline too.
C4_Witness ==
    \E p \in PodNames : \E q \in PodNames \ {p} :
        /\ handle[p][1] = "running"
        /\ epState[p][2] = "process"
        /\ epState[q][1] = "tags"

\* C11: when writing the tags to the file fails for the episode at loop
\* position i, the failure is handled like a failed episode fetch: once
\* Podcasts::sync has returned, the podcast has reported one error to its
\* display, no later position was attempted, and the paths of the positions
\* before i are in the result.
C11_TagWriteFailureKeepsPrefix ==
    \A p \in PodNames : \A i \in Positions :
        (epState[p][i] = "panicked" /\ panicCause[p] = "write") =>
            /\ \A j \in Positions : j > i => epState[p][j] = "pending"
            /\ syncPc = "returned" =>
                  /\ CountOf(ui[p], "error") = 1
                  /\ PathsOf(p) = PrefixPaths(p, i - 1)

\* The call of Podcast::sync of podcast p has ended, by returning or by a panic.
SyncCallEnded(p) == feedRes[p] = "ok" /\ pc[p] \in {"done", "panicked"}

\* C16: every call of Podcast::sync runs the progress lifecycle exactly once:
\* ui.init comes before every begin_download; ui.complete comes once, as the
\* last call on the display, when no download attempt is under way and every
\* handle of `downloaded` has been awaited; a call that has ended has made
\* both calls; a call with no eligible episode returns no path.
C16_LifecycleExactlyOnce ==
    \A p \in PodNames :
        /\ \A n \in 1..Len(ui[p]) :
              ui[p][n] = "begin" => \E m \in 1..(n - 1) : ui[p][m] = "init"
        /\ CountOf(ui[p], "init") <= 1
        /\ CountOf(ui[p], "complete") <= 1
        /\ CountOf(ui[p], "complete") = 1 =>
              /\ ui[p][Len(ui[p])] = "complete"
              /\ InPipeline(p) = {}
              /\ awaitPos[p] = Len(downloaded[p])
              /\ \A n \in 1..Len(downloaded[p]) :
                    handle[p][downloaded[p][n]] \in {"joined", "absent"}
        /\ SyncCallEnded(p) =>
              /\ CountOf(ui[p], "init") = 1
              /\ CountOf(ui[p], "complete") = 1
              /\ pendingLen[p] = 0 => (pc[p] = "done" /\ ret[p] = <<>>)

\* C17: the downloaded marker of an episode is written only by the step that
\* follows its successful fetch, enrichment and processing; an episode whose
\* pipeline failed, panicked, is still under way or was never reached is not
\* marked.
C17_MarkedOnlyAfterSuccess ==
    /\ [](\A p \in PodNames : \A k \in Positions :
              k \in marked[p] => epState[p][k] = "ok")
    /\ [][\A p \in PodNames : \A k \in Positions :
              (k \notin marked[p] /\ k \in marked'[p]) =>
                  (epState[p][k] = "finish" /\ epState'[p][k] = "ok")]_vars

\* The first episode of a podcast is marked, the second failed in processing
\* and is not; the first episode of the other podcast panicked while its tags
\* were set and is not marked either.
C17_Witness ==
    \E p \in PodNames : \E q \in PodNames \ {p} :
        /\ epState[p][1] = "ok" /\ epState[p][2] = "err"
        /\ marked[p] = {1}
        /\ epState[q][1] = "panicked" /\ epState[q][2] = "pending"
        /\ marked[q] = {}

\* C21: once Podcasts::sync has returned, every episode whose downloaded
\* marker was written during the run has its path in the returned list,
\* whatever happened to the later episodes of its podcast.
C21_MarkedHavePathInResult ==
    syncPc = "returned" =>
        \A p \in PodNames : \A k \in marked[p] :
            \E i \in DOMAIN result : result[i] = Path(p, k)

NextSync ==
    \/ SyncSpawn
    \/ JoinAll
    \/ \E p \in PodNames : PodcastNewErr(p)
    \/ \E p \in PodNames : PodcastNewOk(p)
    \/ \E p \in PodNames : SyncBegin(p)
    \/ \E p \in PodNames : BeginDownload(p)
    \/ \E p \in PodNames : LoopEnd(p)
    \/ \E p \in PodNames : AwaitHandle(p)
    \/ \E p \in PodNames : Complete(p)
    \/ \E p \in PodNames, k \in Positions : Download(p, k)
    \/ \E p \in PodNames, k \in Positions : SetMp3TagsOk(p, k)
    \/ \E p \in PodNames, k \in Positions : SetMp3TagsPanic(p, k)
    \/ \E p \in PodNames, k \in Positions : ProcessOk(p, k)
    \/ \E p \in PodNames, k \in Positions : ProcessErr(p, k)
    \/ \E p \in PodNames, k \in Positions : Finish(p, k)
    \/ \E p \in PodNames, k \in Positions : BackgroundEnds(p, k)

SpecSync == InitSync /\ [][NextSync]_vars

\* ------------------------------------------------------------ claims, SpecFeed
Built == feedPc \in {"ready", "pending"}

EpisodePositions == 1..Len(episodes)

Undownloaded == {i \in EpisodePositions : episodes[i].id \notin isDownloaded}

PendingPositions == 1..Len(pendingSeq)

\* C5: in Standard(limit = k) mode with at least k episodes not marked
\* downloaded, pending_episodes returns exactly k episodes, none of them marked
\* downloaded, newest first: the index strictly decreases along the result and
\* the publish timestamp never increases.
C5_StandardTakesKNewestFirst ==
    (feedPc = "pending" /\ mode.kind = "standard"
        /\ Cardinality(Undownloaded) >= mode.limit) =>
        /\ Len(pendingSeq) = mode.limit
        /\ \A i \in PendingPositions :
              \E j \in Undownloaded : pendingSeq[i] = episodes[j]
        /\ \A i \in PendingPositions : \A j \in PendingPositions :
              i < j => /\ pendingSeq[i].index > pendingSeq[j].index
                       /\ pendingSeq[i].published >= pendingSeq[j].published

\* Episodes at t1 < t2 < t3, nothing downloaded, limit 2: [t3, t2].
C5_Witness ==
    /\ feedPc = "pending"
    /\ mode.kind = "standard" /\ mode.limit = 2
    /\ isDownloaded = {}
    /\ Len(episodes) = 3
    /\ \A i \in 1..3 : episodes[i].published = i
    /\ Len(pendingSeq) = 2
    /\ pendingSeq[1].published = 3 /\ pendingSeq[2].published = 2

\* C6: in Backlog(cutoff) mode pending_episodes returns exactly the episodes
\* that are not marked downloaded and are at or after the cutoff, each once,
\* oldest first: the index strictly increases along the result.
C6_BacklogTakesAllOldestFirst ==
    (feedPc = "pending" /\ mode.kind = "backlog") =>
        /\ {pendingSeq[i] : i \in PendingPositions}
              = {episodes[j] : j \in {n \in Undownloaded :
                                         episodes[n].published >= mode.cutoff}}
        /\ \A i \in PendingPositions : \A j \in PendingPositions :
              i < j => /\ pendingSeq[i].index < pendingSeq[j].index
                       /\ pendingSeq[i].published <= pendingSeq[j].published

\* Episodes at t1 < t2 < t3, nothing downloaded, cutoff t1: [t1, t2, t3].
C6_Witness ==
    /\ feedPc = "pending"
    /\ mode.kind = "backlog" /\ mode.cutoff = 1
    /\ isDownloaded = {}
    /\ Len(episodes) = 3
    /\ Len(pendingSeq) = 3
    /\ \A i \in 1..3 : pendingSeq[i].published = i

\* C7 as stated: of two episodes the one with the smaller index has the
\* strictly earlier publish timestamp.
C7_IndexStrictlyFollowsTime ==
    Built =>
        \A a \in EpisodePositions : \A b \in EpisodePositions :
            episodes[a].index < episodes[b].index
                => episodes[a].published < episodes[b].published

\* C7 as amended: of two episodes the one with the smaller index has the
\* earlier or the same publish timestamp, and a strictly earlier timestamp
\* gives a smaller index.
C7_IndexFollowsTime ==
    Built =>
        \A a \in EpisodePositions : \A b \in EpisodePositions :
            /\ episodes[a].index < episodes[b].index
                  => episodes[a].published <= episodes[b].published
            /\ episodes[a].published < episodes[b].published
                  => episodes[a].index < episodes[b].index

\* A feed not in publish order, with two episodes of the same timestamp.
C7_Witness ==
    /\ Built
    /\ Len(rawEpisodes) = 3
    /\ rawEpisodes[1].published = 2 /\ rawEpisodes[1].missing = "none"
    /\ rawEpisodes[2].published = 1 /\ rawEpisodes[2].missing = "none"
    /\ rawEpisodes[3].published = 2 /\ rawEpisodes[3].missing = "none"
    /\ Len(episodes) = 3
    /\ episodes[1].published = 1 /\ episodes[1].index = 0

ValidItems == {i \in 1..Len(rawEpisodes) : rawEpisodes[i].missing = "none"}

\* C8: an item for which Episode::new gives None never enters the episodes and
\* never stops the construction; once the podcast is built its episodes are
\* exactly the other items, and their indices are exactly 0..n-1, each used
\* once.
C8_DroppedItemsLeaveNoGap ==
    /\ \A i \in EpisodePositions : episodes[i].id \in ValidItems
    /\ feedPc = "build" => ENABLED (NewTakeEpisode \/ NewSortAndIndex)
    /\ Built =>
          /\ {episodes[i].id : i \in EpisodePositions} = ValidItems
          /\ Len(episodes) = Cardinality(ValidItems)
          /\ {episodes[i].index : i \in EpisodePositions} = 0..(Len(episodes) - 1)
          /\ \A i \in EpisodePositions : \A j \in EpisodePositions :
                i # j => episodes[i].index # episodes[j].index

\* The second of three items has no guid.
C8_Witness ==
    /\ Built
    /\ Len(rawEpisodes) = 3
    /\ rawEpisodes[1].missing = "none"
    /\ rawEpisodes[2].missing = "guid"
    /\ rawEpisodes[3].missing = "none"
    /\ Len(episodes) = 2
    /\ {episodes[i].index : i \in EpisodePositions} = {0, 1}

\* C19: episodes with the same publish timestamp get their indices in the
\* order the feed lists them (the sort is stable).
C19_TiesKeepFeedOrder ==
    Built =>
        \A a \in EpisodePositions : \A b \in EpisodePositions :
            (episodes[a].published = episodes[b].published
                /\ episodes[a].id < episodes[b].id)
                => episodes[a].index < episodes[b].index

\* The first and the third item of the feed have the same timestamp, later
\* than the second item's: the indices are 1 and 2, in feed order.
C19_Witness ==
    /\ Built
    /\ Len(rawEpisodes) = 3
    /\ \A i \in 1..3 : rawEpisodes[i].missing = "none"
    /\ rawEpisodes[1].published = 2
    /\ rawEpisodes[2].published = 1
    /\ rawEpisodes[3].published = 2
    /\ episodes = <<[id |-> 2, published |-> 1, index |-> 0],
                    [id |-> 1, published |-> 2, index |-> 1],
                    [id |-> 3, published |-> 2, index |-> 2]>>

NextFeed ==
    \/ NewTakeEpisode
    \/ NewSortAndIndex
    \/ PendingEpisodes

SpecFeed == InitFeed /\ [][NextFeed]_vars

\* ------------------------------------------------------------ claims, SpecTags
FailedFetches == {"bad_status", "body_error"}

\* C9 as stated: a frame the file held before a run of set_mp3_tags holds the
\* same value after the run returned, whatever the custom tag mapping.
C9_ExistingTagsKept ==
    runs >= 1 =>
        \A f \in AllFrames : tagsBefore[f] # None => fileTags[f] = tagsBefore[f]

\* C10 as stated: the second run leaves the tags of the file as the first run
\* wrote them, whatever the artwork fetches gave.
C10_SecondRunChangesNothing ==
    runs = 2 => fileTags = tagsAfterFirst

\* C10 as amended: a run that follows another run leaves the tags of the file
\* as they were, unless the earlier run's artwork fetch failed (non-success
\* status or unreadable body) and its own succeeds: then it adds the cover art
\* and changes nothing else.
C10_RepeatedRunIdempotent ==
    runs >= 2 =>
        IF fetches[runs - 1] \in FailedFetches /\ fetches[runs] = "ok"
        THEN fileTags = [tagsBefore EXCEPT ![PictureId] = "picture"]
        ELSE fileTags = tagsBefore

\* Two runs whose artwork fetches both failed, on a file that came with a tag
\* and got the derived ones in the first run.
C10_Witness ==
    /\ runs = 2
    /\ fetches = <<"bad_status", "bad_status">>
    /\ Preset(tagsBefore) = AllFrames \ {PictureId, ComposerId}
    /\ fileTags = tagsBefore
    /\ fileTags[AlbumId] = "old"
    /\ fileTags[CategoryId] = "Tech"

\* C12: every failure of the artwork fetch (transport error, non-success
\* status, unreadable body) is best-effort: the run does not abort, and the run
\* that saw the failure wrote every tag a run with a successful fetch would
\* have written, except the cover art.
C12_ArtworkFailureIsBestEffort ==
    /\ lastPanic # "artwork"
    /\ (runs >= 1 /\ fetches[runs] \in FetchOutcomes \ {"ok"}) =>
          fileTags = [set_mp3_tags(tagsBefore, attrs, customTags, "ok", TRUE,
                                   overflowChecks).tags
                          EXCEPT ![PictureId] = tagsBefore[PictureId]]

\* Whether the podcast and the episode give no value for frame f.
SourceAbsent(a, f) ==
    CASE f = ArtistId      -> a.ep_author = None
      [] f = AlbumId       -> a.pod_title = None
      [] f = TrackId       -> ParseU32(a.itunes_episode) < 0
      [] f = CopyrightId   -> a.copyright = None
      [] f = DescriptionId -> a.description = None
      [] f = PictureId     -> a.ep_image = None /\ a.pod_image = None
      [] f = CategoryId    -> a.categories = ""
      [] f = LanguageId    -> a.language = None
      [] f = DurationId    -> ParseU32(a.itunes_duration) < 0
      [] f = PublisherId   -> a.pod_author = None
      [] OTHER             -> FALSE

\* C13: for every enrichment field, when its source is absent or unparsable
\* the run does not abort, leaves that frame as the file and the custom tags
\* had it, and still sets every other frame that has a source and no value
\* (the cover art aside, which also needs its fetch).
C13_AbsentSourceSkipsField ==
    /\ lastPanic # "title"
    /\ runs >= 1 =>
          LET base == ApplyCustom(tagsBefore, customTags)
          IN  \A f \in DerivedFrames :
                  IF SourceAbsent(attrs, f)
                  THEN fileTags[f] = base[f]
                  ELSE f # PictureId => fileTags[f] # None

\* s * 1000 in decimal, for s >= 0.
ExactMillis(secs) == IF secs = 0 THEN "0" ELSE ToString(secs) \o "000"

\* C20: for every itunes duration that parses as u32 seconds s, a run on a
\* file without duration tag does not abort and writes exactly s * 1000 as the
\* duration; a duration that does not parse writes no duration tag.
C20_DurationExactMillis ==
    /\ lastPanic # "overflow"
    /\ runs >= 1 =>
          LET base == ApplyCustom(tagsBefore, customTags)
              secs == ParseU32(attrs.itunes_duration)
          IN  base[DurationId] = None =>
                  fileTags[DurationId] =
                      IF secs >= 0 THEN ExactMillis(secs) ELSE None

NextTags ==
    \/ RunSetMp3Tags
    \/ RunSetMp3TagsPanic

SpecTags == InitTags /\ [][NextTags]_vars

\* ------------------------------------------------------------- claims, SpecXml
\* The document has the rss/channel structure.
HasChannel(doc) ==
    /\ doc.wellFormed
    /\ doc.root.name = <<"rss">>
    /\ \E i \in DOMAIN doc.root.kids : doc.root.kids[i].name = <<"channel">>

ChannelOf(doc) ==
    doc.root.kids[CHOOSE i \in DOMAIN doc.root.kids :
                      doc.root.kids[i].name = <<"channel">>]

\* The channel of the document has at least one <item>.
HasItemList(doc) ==
    /\ HasChannel(doc)
    /\ \E i \in DOMAIN ChannelOf(doc).kids : ChannelOf(doc).kids[i].name = <<"item">>

XmlToValueEnded == xmlPc \in {"decoded", "panicked", "done"}

\* C14: for a document without the rss/channel structure, and for a document
\* whose channel has no item list, xml_to_value returns None (it does not
\* panic and gives no podcast and no episodes), and Podcast::new returns the
\* error 'failed to parse xml' and constructs no Podcast.
C14_NoChannelOrNoItemsIsParseError ==
    (XmlToValueEnded /\ ~HasItemList(xmlDoc)) =>
        /\ xmlPc # "panicked"
        /\ xmlOut = NoneValue
        /\ xmlPc = "done" => newRes = "failed to parse xml"

\* A channel with a title and an itunes element but no item: parse error.
C14_Witness ==
    /\ xmlPc = "done"
    /\ HasChannel(xmlDoc)
    /\ ChannelOf(xmlDoc).kids = <<PlainTitle, ItunesOwner>>
    /\ xmlOut = NoneValue
    /\ newRes = "failed to parse xml"

\* What the children of src named `name` decode to when the library decodes
\* their content as it is written (as it does under a plain name).
DecodedAsWritten(src, name) ==
    LET vs == SelectSeq(src.kids, LAMBDA d : d.name = name)
    IN  IF Len(vs) = 1 THEN ToJson(vs[1])
        ELSE JArray([i \in DOMAIN vs |-> ToJson(vs[i])])

HasToken(str, tok) == \E i \in DOMAIN str : str[i] = tok

\* Whether a key or a text anywhere in the JSON value holds the token.
RECURSIVE ValueHasToken(_, _)
ValueHasToken(v, tok) ==
    \/ HasToken(v.text, tok)
    \/ \E k \in DOMAIN v.members :
          v.kind = "object" /\ (HasToken(k, tok) \/ ValueHasToken(v.members[k], tok))
    \/ \E i \in DOMAIN v.elems : ValueHasToken(v.elems[i], tok)

\* The itunes elements of src are in mapping m under their own names, apart
\* from the plain elements, with the value their content decodes to.
ItunesRoundTrip(src, m) ==
    /\ \A i \in DOMAIN src.kids :
          IF Head(src.kids[i].name) = ItunesPrefix
          THEN /\ src.kids[i].name \in DOMAIN m
               /\ m[src.kids[i].name] = DecodedAsWritten(src, src.kids[i].name)
          ELSE LocalName(src.kids[i].name) \in DOMAIN m
    /\ ~ValueHasToken(JObject(m), replacement)

ItemsOf(doc) == SelectSeq(ChannelOf(doc).kids, LAMBDA d : d.name = <<"item">>)

\* C15: when xml_to_value returns Some, every element written itunes:X in the
\* channel or in an item is in the decoded attributes under the key itunes:X,
\* apart from a plain X, with the value its content decodes to under a plain
\* name, and no key and no value of the output holds the placeholder token.
C15_ItunesNamespaceRoundTrip ==
    (xmlPc \in {"decoded", "done"} /\ xmlOut.kind = "some") =>
        /\ ItunesRoundTrip(ChannelOf(xmlDoc), xmlOut.podcast)
        /\ Len(xmlOut.episodes) = Len(ItemsOf(xmlDoc))
        /\ \A i \in DOMAIN xmlOut.episodes :
              ItunesRoundTrip(ItemsOf(xmlDoc)[i], xmlOut.episodes[i])

\* The keys the children of an item are expected under.
ItemKeys(item) ==
    {IF Head(item.kids[i].name) = ItunesPrefix THEN item.kids[i].name
     ELSE LocalName(item.kids[i].name) : i \in DOMAIN item.kids}

\* C22: xml_to_value never panics, and for a document whose channel has
\* n >= 1 items it returns Some with exactly n raw episodes, the i-th of them
\* made of the i-th item of the document.
C22_OneEpisodePerItem ==
    /\ xmlPc # "panicked"
    /\ (xmlPc \in {"decoded", "done"} /\ HasItemList(xmlDoc)) =>
          /\ xmlOut.kind = "some"
          /\ Len(xmlOut.episodes) = Len(ItemsOf(xmlDoc))
          /\ \A i \in DOMAIN xmlOut.episodes :
                DOMAIN xmlOut.episodes[i] = ItemKeys(ItemsOf(xmlDoc)[i])

NextXml ==
    \/ XmlToValue
    \/ XmlToValuePanic
    \/ PodcastNewParseErr
    \/ PodcastNewParsed

SpecXml == InitXml /\ [][NextXml]_vars

\* -------------------------------------------------------------- claims, SpecNs
\* The name with its namespace colon replaced.
ColonReplaced(name, repl) ==
    [i \in DOMAIN name |-> IF name[i] = ":" THEN repl ELSE name[i]]

\* C18: in the document remove_xml_namespaces returns, every piece of the
\* input is there in its place; every element name (of a start tag, an end tag
\* or a self-closing tag) has its namespace colon replaced by the replacement,
\* a name without colon is as it was, and every text is as it was.
C18_NamespaceColonReplaced ==
    nsPc = "done" =>
        /\ Len(nsOut) = Len(nsIn)
        /\ \A i \in DOMAIN nsIn :
              /\ nsOut[i].kind = nsIn[i].kind
              /\ nsOut[i].name = ColonReplaced(nsIn[i].name, nsRepl)
              /\ nsOut[i].text = nsIn[i].text

NextNs ==
    \/ NsStart
    \/ NsEnd
    \/ NsOther
    \/ NsError
    \/ NsEof

SpecNs == InitNs /\ [][NextNs]_vars

====
